---------------------------- MODULE Spec2Model ----------------------------
(***************************************************************************)
(* Model of DSPy_workflow/argumentative_extractor.py.                      *)
(*                                                                         *)
(* Python strings are sequences of one-character strings, so that lower(), *)
(* `in`, replace(), split(), join(), strip() and sorted() are computed     *)
(* character by character, as the interpreter computes them.               *)
(***************************************************************************)
EXTENDS Integers, Sequences, FiniteSets, TLC

(***************************************************************************)
(* Bounds of the model.                                                    *)
(***************************************************************************)
\* most entries in a classifier reply and in an example's "missing" field
MaxParts == 2
\* most records in the "samples" array of a training file
MaxSamples == 2

(***************************************************************************)
(* Python str and list primitives.                                         *)
(***************************************************************************)
\* the printable ASCII characters, code points 32..126, in code-point order
\* (code point 96, the grave accent, is held by a placeholder no character equals)
Ascii == <<" ","!","\"","#","$","%","&","'","(",")","*","+",",","-",".","/","0","1","2","3","4","5","6","7","8","9",":",";","<","=",">","?","@","A","B","C","D","E","F","G","H","I","J","K","L","M","N","O","P","Q","R","S","T","U","V","W","X","Y","Z","[","\\","]","^","_","grave","a","b","c","d","e","f","g","h","i","j","k","l","m","n","o","p","q","r","s","t","u","v","w","x","y","z","{","|","}","~">>

\* ord(c)
Ord(c) ==
  IF c = "\n" THEN 10
  ELSE IF c = "\t" THEN 9
  ELSE 31 + CHOOSE i \in 1..Len(Ascii) : Ascii[i] = c

\* characters str.strip() removes
Whitespace == {" ", "\n", "\t"}

\* str.lower() on one character
LowerChar(c) ==
  IF Ord(c) >= 65 /\ Ord(c) <= 90 THEN Ascii[Ord(c) + 32 - 31] ELSE c

\* s.lower()
Lower(s) == [i \in 1..Len(s) |-> LowerChar(s[i])]

\* s[i:].startswith(sub), i counted from 1
MatchAt(s, sub, i) ==
  /\ i + Len(sub) - 1 <= Len(s)
  /\ \A k \in 1..Len(sub) : s[i + k - 1] = sub[k]

\* sub in s
Contains(s, sub) == \E i \in 1..(Len(s) + 1) : MatchAt(s, sub, i)

\* s.find(sub) + 1, for a sub that occurs in s
Find(s, sub) ==
  CHOOSE i \in 1..(Len(s) + 1) :
    /\ MatchAt(s, sub, i)
    /\ \A j \in 1..(i - 1) : ~MatchAt(s, sub, j)

\* s.replace(c, "") for a one-character c
RemoveChar(s, c) == SelectSeq(s, LAMBDA x : x # c)

\* s.split(sep) for a non-empty sep
RECURSIVE Split(_, _)
Split(s, sep) ==
  IF ~Contains(s, sep) THEN <<s>>
  ELSE LET i == Find(s, sep)
       IN  <<SubSeq(s, 1, i - 1)>> \o Split(SubSeq(s, i + Len(sep), Len(s)), sep)

\* sep.join(parts)
RECURSIVE Join(_, _)
Join(sep, parts) ==
  IF Len(parts) = 0 THEN <<>>
  ELSE IF Len(parts) = 1 THEN parts[1]
  ELSE parts[1] \o sep \o Join(sep, Tail(parts))

\* s.lstrip()
RECURSIVE LStrip(_)
LStrip(s) ==
  IF Len(s) > 0 /\ s[1] \in Whitespace THEN LStrip(Tail(s)) ELSE s

\* s.rstrip()
RECURSIVE RStrip(_)
RStrip(s) ==
  IF Len(s) > 0 /\ s[Len(s)] \in Whitespace
  THEN RStrip(SubSeq(s, 1, Len(s) - 1)) ELSE s

\* s.strip()
Strip(s) == RStrip(LStrip(s))

\* a < b on str: lexicographic by code point
RECURSIVE StrLess(_, _)
StrLess(a, b) ==
  IF Len(b) = 0 THEN FALSE
  ELSE IF Len(a) = 0 THEN TRUE
  ELSE IF a[1] = b[1] THEN StrLess(Tail(a), Tail(b))
  ELSE Ord(a[1]) < Ord(b[1])

\* insertion of x into a sorted list, after the entries that are not greater
RECURSIVE Insert(_, _)
Insert(x, l) ==
  IF Len(l) = 0 THEN <<x>>
  ELSE IF StrLess(x, l[1]) THEN <<x>> \o l
  ELSE <<l[1]>> \o Insert(x, Tail(l))

\* sorted(l) for a list of str
RECURSIVE sorted(_)
sorted(l) ==
  IF Len(l) = 0 THEN <<>>
  ELSE Insert(l[Len(l)], sorted(SubSeq(l, 1, Len(l) - 1)))

\* x in l, for a list l
InList(x, l) == \E i \in 1..Len(l) : l[i] = x

\* the entries of a list, as a set
Elems(l) == {l[i] : i \in 1..Len(l)}

\* Python's None; not a str of the model: its entry is not one character
None == <<"None">>

\* all(...): exactly one iterable argument, TypeError otherwise
all(args) ==
  IF Len(args) # 1 THEN "TypeError"
  ELSE IF \A i \in 1..Len(args[1]) : args[1][i] THEN "True"
  ELSE "False"

(***************************************************************************)
(* Strings of the program.                                                 *)
(***************************************************************************)
all_present == <<"a","l","l","_","p","r","e","s","e","n","t">>
topic_sentence == <<"t","o","p","i","c","_","s","e","n","t","e","n","c","e">>
evidence == <<"e","v","i","d","e","n","c","e">>
analysis == <<"a","n","a","l","y","s","i","s">>
tieback_or_transition == <<"t","i","e","b","a","c","k","_","o","r","_","t","r","a","n","s","i","t","i","o","n">>

\* the component names the classifier is told to choose from
Components == {topic_sentence, evidence, analysis, tieback_or_transition}

\* the text of the diagnostic message before the list of components
MessageHead == <<"T","h","e"," ","p","r","o","v","i","d","e","d"," ","t","e","x","t"," ","i","s"," ","i","n","c","o","m","p","l","e","t","e","."," ","T","h","e"," ","f","o","l","l","o","w","i","n","g"," ","c","o","m","p","o","n","e","n","t","s"," ","a","r","e"," ","m","i","s","s","i","n","g",":"," ">>

\* the text of the diagnostic message after the list of components
MessageTail == <<".">>

(***************************************************************************)
(* Inputs: what the language model may reply, what a training example may  *)
(* hold.                                                                   *)
(***************************************************************************)
\* entries a classifier reply is made of: component names, the all-present
\* marker in several spellings, an empty entry, an entry with a colon
ReplyItems ==
  Components \cup
  { all_present,
    <<"A","l","l","_","P","r","e","s","e","n","t">>,
    <<"a","l","l","_"," ","p","r","e","s","e","n","t">>,
    <<>>,
    <<"n",":","a">> }

\* separators the classifier may put between the entries
ReplySeps == { <<",">>, <<",", " ">> }

\* lists of at most n entries drawn from S
SeqsUpTo(S, n) == UNION { [1..k -> S] : k \in 0..n }

\* the classifier's replies (missing_components)
ClassifierReplies ==
  { Join(sep, items) : sep \in ReplySeps, items \in SeqsUpTo(ReplyItems, MaxParts) }

\* the input texts of forward: the two sample texts of main
Texts == { "unseen_text_complete", "unseen_text_incomplete" }

\* a prediction with the four output fields
Pred(ts, ev, an, tb) ==
  [topic_sentence |-> ts, evidence |-> ev, analysis |-> an, tieback_or_transition |-> tb]

\* the prediction variable before forward has returned
NoPrediction == Pred(None, None, None, None)

\* the structure extractor's replies: four texts
ExtractorReplies ==
  { Pred(<<"T">>, <<"E">>, <<"A">>, <<"B">>),
    Pred(<<"T">>, <<"E">>, <<"A">>, <<"x", ":", " ">> \o evidence) }

\* the "missing" fields of the training examples: component names joined by ','
ExpectedMissing ==
  { Join(<<",">>, items) : items \in (SeqsUpTo({evidence, analysis}, MaxParts) \ {<<>>}) }

\* the training examples the metric is applied to
Examples ==
  { [missing |-> m] : m \in ExpectedMissing } \cup
  { Pred(<<"T">>, <<"E">>, <<"A">>, <<"B">>),
    Pred(<<"T">>, <<"E">>, <<"A">>, <<"C">>) }

(***************************************************************************)
(* ArgumentativeExtractor.forward                                          *)
(***************************************************************************)
\* the branch condition without lower(): a reply in capitals is not complete
IsComplete_CaseSensitive(missing_components) == Contains(missing_components, all_present)

\* the condition of the branch: "all_present" in missing_components.lower()
IsComplete(missing_components) == Contains(Lower(missing_components), all_present)

\* missing_parts of the incomplete branch
missing_parts(missing_components) ==
  Split(RemoveChar(missing_components, " "), <<",">>)

\* message of the incomplete branch
message(missing_components) ==
  MessageHead \o Join(<<",", " ">>, missing_parts(missing_components)) \o MessageTail

\* the incomplete branch with the message in the wrong field
DiagnosticPrediction_WrongField(missing_components) ==
  Pred(message(missing_components), None, None, None)

\* the prediction the incomplete branch returns
DiagnosticPrediction(missing_components) ==
  Pred(None, None, None, message(missing_components))

(***************************************************************************)
(* is_text_complete_and_correct                                            *)
(***************************************************************************)
\* dspy.evaluate.answer_exact_match, as the metric uses it: equal texts
answer_exact_match(pred, gold) == pred = gold

\* the list the metric reads out of the prediction's message, before sorting
parsed_missing_parts(tb) ==
  LET segs == Split(tb, <<":">>)
  IN  Split(Strip(segs[Len(segs)]), <<",", " ">>)

\* the metric: "True", "False", or the name of the exception it raises
is_text_complete_and_correct(ex, pr) ==
  IF "missing" \in DOMAIN ex
  THEN IF pr.tieback_or_transition = None THEN "AttributeError"
       ELSE LET expected_missing_parts == sorted(Split(ex.missing, <<",">>))
                predicted_missing_parts == sorted(parsed_missing_parts(pr.tieback_or_transition))
            IN  all(<< [i \in 1..Len(expected_missing_parts) |->
                          InList(expected_missing_parts[i], predicted_missing_parts)] >>)
  ELSE IF ~({"topic_sentence", "evidence", "analysis", "tieback_or_transition"} \subseteq DOMAIN ex)
       THEN "KeyError"
       ELSE all(<< answer_exact_match(pr.topic_sentence, ex.topic_sentence),
                   answer_exact_match(pr.evidence, ex.evidence),
                   answer_exact_match(pr.analysis, ex.analysis),
                   answer_exact_match(pr.tieback_or_transition, ex.tieback_or_transition) >>)

(***************************************************************************)
(* State of one call of forward followed by one application of the metric. *)
(***************************************************************************)
VARIABLES
  fpc,                 \* where the call is: forward, classified, returned, raised, scored
  text,                \* the argument of forward
  completeness_result, \* missing_components of the classifier's reply
  extraction_result,   \* the extractor's reply
  calls,               \* the predictor calls made so far, in order
  prediction,          \* what forward returned
  example,             \* the example the metric was applied to
  metric_result        \* what the metric returned or raised

fvars == <<fpc, text, completeness_result, extraction_result, calls, prediction,
           example, metric_result>>

\* line 31: the classifier is called and replies
Classify(r) ==
  /\ fpc = "forward"
  /\ calls' = Append(calls, [callee |-> "completeness_classifier", arg |-> text])
  /\ completeness_result' = r
  /\ fpc' = "classified"
  /\ UNCHANGED <<text, extraction_result, prediction, example, metric_result>>

\* line 31: the classifier is called and raises
ClassifyRaises ==
  /\ fpc = "forward"
  /\ calls' = Append(calls, [callee |-> "completeness_classifier", arg |-> text])
  /\ fpc' = "raised"
  /\ UNCHANGED <<text, completeness_result, extraction_result, prediction, example,
                 metric_result>>

\* lines 32-34: the complete branch, the extractor replies and its reply is returned
Extract(e) ==
  /\ fpc = "classified"
  /\ IsComplete(completeness_result)
  /\ calls' = Append(calls, [callee |-> "structure_extractor", arg |-> text])
  /\ extraction_result' = e
  /\ prediction' = e
  /\ fpc' = "returned"
  /\ UNCHANGED <<text, completeness_result, example, metric_result>>

\* lines 32-33: the complete branch, the extractor raises
ExtractRaises ==
  /\ fpc = "classified"
  /\ IsComplete(completeness_result)
  /\ calls' = Append(calls, [callee |-> "structure_extractor", arg |-> text])
  /\ fpc' = "raised"
  /\ UNCHANGED <<text, completeness_result, extraction_result, prediction, example,
                 metric_result>>

\* lines 35-43: the incomplete branch
Diagnose ==
  /\ fpc = "classified"
  /\ ~IsComplete(completeness_result)
  /\ prediction' = DiagnosticPrediction(completeness_result)
  /\ fpc' = "returned"
  /\ UNCHANGED <<text, completeness_result, extraction_result, calls, example,
                 metric_result>>

\* lines 46-67: the metric is applied to an example and the prediction
Score(ex) ==
  /\ fpc = "returned"
  /\ example' = ex
  /\ metric_result' = is_text_complete_and_correct(ex, prediction)
  /\ fpc' = "scored"
  /\ UNCHANGED <<text, completeness_result, extraction_result, calls, prediction>>

(***************************************************************************)
(* load_trainset                                                           *)
(***************************************************************************)
\* the flat records a training file may hold
Records ==
  { [text |-> "p1", missing |-> "evidence"],
    [context |-> "p2", topic_sentence |-> "T", evidence |-> "E", analysis |-> "A",
     tieback_or_transition |-> "B"] }

\* the entries of a "samples" array: a record, or a value that is no JSON object
SampleValues ==
  { [is_object |-> TRUE, fields |-> r] : r \in Records } \cup
  { [is_object |-> FALSE, fields |-> <<>>] }

\* the training files: unreadable, not JSON, JSON without "samples", or JSON
\* with a "samples" array
Files ==
  { [state |-> st, samples |-> <<>>] : st \in {"unreadable", "malformed", "no_samples"} } \cup
  { [state |-> "ok", samples |-> ss] : ss \in SeqsUpTo(SampleValues, MaxSamples) }

\* dspy.Example(**sample): an example that stores the sample's keys and values
Example(sample) == [store |-> [k \in DOMAIN sample |-> sample[k]]]

\* the result of a call: the value returned, or the exception raised
Returned(v) == [raised |-> "none", value |-> v]
Raised(exc) == [raised |-> exc, value |-> <<>>]

\* the loop with a sample that is no object skipped instead of raising
RECURSIVE load_loop_SkipsBadSample(_, _)
load_loop_SkipsBadSample(samples, trainset) ==
  IF Len(samples) = 0 THEN Returned(trainset)
  ELSE IF ~samples[1].is_object THEN load_loop_SkipsBadSample(Tail(samples), trainset)
  ELSE load_loop_SkipsBadSample(Tail(samples), Append(trainset, Example(samples[1].fields)))

\* the loop with each example put in front of the list instead of at its end
RECURSIVE load_loop_Reversed(_, _)
load_loop_Reversed(samples, trainset) ==
  IF Len(samples) = 0 THEN Returned(trainset)
  ELSE IF ~samples[1].is_object THEN Raised("TypeError")
  ELSE load_loop_Reversed(Tail(samples), <<Example(samples[1].fields)>> \o trainset)

\* lines 73-77: the loop over data["samples"], from the trainset built so far
RECURSIVE load_loop(_, _)
load_loop(samples, trainset) ==
  IF Len(samples) = 0 THEN Returned(trainset)
  ELSE IF ~samples[1].is_object THEN Raised("TypeError")
  ELSE load_loop(Tail(samples), Append(trainset, Example(samples[1].fields)))

\* load_trainset(json_file_path)
load_trainset(file) ==
  IF file.state = "unreadable" THEN Raised("OSError")
  ELSE IF file.state = "malformed" THEN Raised("JSONDecodeError")
  ELSE IF file.state = "no_samples" THEN Raised("KeyError")
  ELSE load_loop(file.samples, <<>>)

(***************************************************************************)
(* main and the command line                                               *)
(***************************************************************************)
\* the names the --optimizer flag accepts
Choices == {"BootstrapFewShot", "MIPROv2"}

\* the default of the flag and of main's optimizer_type parameter
DefaultOptimizer == "MIPROv2"

\* values given for the optimizer: on the command line or in a call of main
OptimizerArgs == {"absent", "BootstrapFewShot", "MIPROv2", "bootstrapfewshot", "COPRO"}

\* the choice with the test on the other name: BootstrapFewShot unless "MIPROv2"
MakeOptimizer_Swapped(optimizer_type) ==
  IF optimizer_type = "MIPROv2"
  THEN [kind |-> "MIPROv2", metric |-> "is_text_complete_and_correct"]
  ELSE [kind |-> "BootstrapFewShot", metric |-> "is_text_complete_and_correct"]

\* lines 91-100: the optimizer main constructs
MakeOptimizer(optimizer_type) ==
  IF optimizer_type = "BootstrapFewShot"
  THEN [kind |-> "BootstrapFewShot", metric |-> "is_text_complete_and_correct"]
  ELSE [kind |-> "MIPROv2", metric |-> "is_text_complete_and_correct"]

\* no optimizer constructed yet
NoOptimizer == [kind |-> "none", metric |-> "none"]

VARIABLES
  mpc,                \* where the run is
  entry,              \* "cli": run as a script; "call": main called directly
  optimizer_arg,      \* the value given for the optimizer, or "absent"
  json_file,          \* the file at json_file_path
  optimizer_type,     \* main's parameter
  trainset,           \* main's local: what load_trainset returned
  optimizer,          \* main's local: the optimizer constructed
  students,           \* ArgumentativeExtractor instances constructed so far
  compile_calls,      \* each optimizer.compile call: its arguments, and the module
                      \* it returned (0 if it raised)
  compiled_extractor, \* main's local: the module compile returned, 0 before
  steps,              \* the steps of main begun so far, in order
  used,               \* the module each invocation and print was given
  main_result,        \* main's return value, 0 before
  exc                 \* the exception that left main, "none" if none

mvars == <<mpc, entry, optimizer_arg, json_file, optimizer_type, trainset, optimizer,
           students, compile_calls, compiled_extractor, steps, used, main_result, exc>>

vars == <<fvars, mvars>>

\* one call of forward begins; main is at rest
Init ==
  /\ fpc = "forward"
  /\ text \in Texts
  /\ completeness_result = None
  /\ extraction_result = NoPrediction
  /\ calls = <<>>
  /\ prediction = NoPrediction
  /\ example = <<>>
  /\ metric_result = "unset"
  /\ mpc = "idle" /\ entry = "call" /\ optimizer_arg = "absent"
  /\ json_file = [state |-> "ok", samples |-> <<>>]
  /\ optimizer_type = "unset" /\ trainset = <<>> /\ optimizer = NoOptimizer
  /\ students = 0 /\ compile_calls = <<>> /\ compiled_extractor = 0
  /\ steps = <<>> /\ used = <<>> /\ main_result = 0 /\ exc = "none"

\* one run of the script or one call of main begins; forward is at rest
InitMain ==
  /\ mpc = "start"
  /\ entry \in {"cli", "call"}
  /\ optimizer_arg \in OptimizerArgs
  /\ json_file \in Files
  /\ optimizer_type = "unset"
  /\ trainset = <<>>
  /\ optimizer = NoOptimizer
  /\ students = 0
  /\ compile_calls = <<>>
  /\ compiled_extractor = 0
  /\ steps = <<>>
  /\ used = <<>>
  /\ main_result = 0
  /\ exc = "none"
  /\ fpc = "idle" /\ text = "unseen_text_complete"
  /\ completeness_result = None /\ extraction_result = NoPrediction
  /\ calls = <<>> /\ prediction = NoPrediction /\ example = <<>>
  /\ metric_result = "unset"

\* lines 150-156: the arguments are parsed; main is called, or the parser exits
ParseArgs ==
  /\ mpc = "start" /\ entry = "cli"
  /\ IF optimizer_arg = "absent"
     THEN mpc' = "main" /\ optimizer_type' = DefaultOptimizer /\ exc' = exc
     ELSE IF optimizer_arg \in Choices
     THEN mpc' = "main" /\ optimizer_type' = optimizer_arg /\ exc' = exc
     ELSE mpc' = "exited" /\ optimizer_type' = optimizer_type /\ exc' = "SystemExit"
  /\ UNCHANGED <<entry, optimizer_arg, json_file, trainset, optimizer, students,
                 compile_calls, compiled_extractor, steps, used, main_result>>

\* line 79: main is called directly, with or without optimizer_type
CallMain ==
  /\ mpc = "start" /\ entry = "call"
  /\ optimizer_type' = IF optimizer_arg = "absent" THEN DefaultOptimizer ELSE optimizer_arg
  /\ mpc' = "main"
  /\ UNCHANGED <<entry, optimizer_arg, json_file, trainset, optimizer, students,
                 compile_calls, compiled_extractor, steps, used, main_result, exc>>

\* line 88: the training set is loaded, or the failure leaves main
Load ==
  /\ mpc = "main"
  /\ steps' = Append(steps, "load_trainset")
  /\ LET r == load_trainset(json_file)
     IN  IF r.raised = "none"
         THEN mpc' = "loaded" /\ trainset' = r.value /\ exc' = exc
         ELSE mpc' = "raised" /\ trainset' = trainset /\ exc' = r.raised
  /\ UNCHANGED <<entry, optimizer_arg, json_file, optimizer_type, optimizer, students,
                 compile_calls, compiled_extractor, used, main_result>>

\* lines 91-100: the optimizer is constructed
Construct ==
  /\ mpc = "loaded"
  /\ steps' = Append(steps, "optimizer")
  /\ optimizer' = MakeOptimizer(optimizer_type)
  /\ mpc' = "constructed"
  /\ UNCHANGED <<entry, optimizer_arg, json_file, optimizer_type, trainset, students,
                 compile_calls, compiled_extractor, used, main_result, exc>>

\* line 104: a new ArgumentativeExtractor is compiled; compile returns module m
Compile(m) ==
  /\ mpc = "constructed"
  /\ steps' = Append(steps, "compile")
  /\ students' = students + 1
  /\ compile_calls' = Append(compile_calls,
                             [optimizer |-> optimizer, student |-> students + 1,
                              trainset |-> trainset, result |-> m])
  /\ compiled_extractor' = m
  /\ mpc' = "compiled"
  /\ UNCHANGED <<entry, optimizer_arg, json_file, optimizer_type, trainset, optimizer,
                 used, main_result, exc>>

\* line 104: compile raises
CompileRaises ==
  /\ mpc = "constructed"
  /\ steps' = Append(steps, "compile")
  /\ students' = students + 1
  /\ compile_calls' = Append(compile_calls,
                             [optimizer |-> optimizer, student |-> students + 1,
                              trainset |-> trainset, result |-> 0])
  /\ exc' = "CompileError"
  /\ mpc' = "raised"
  /\ UNCHANGED <<entry, optimizer_arg, json_file, optimizer_type, trainset, optimizer,
                 compiled_extractor, used, main_result>>

\* the steps after compile with the two invocations exchanged
AfterCompile_Swapped == <<"invoke_incomplete", "invoke_complete", "print_full_prompt">>

\* what main does after compile, in the order of lines 113, 118, 121
AfterCompile == <<"invoke_complete", "invoke_incomplete", "print_full_prompt">>

\* where main is before and after each of those steps
StepAt == <<"compiled", "invoked_complete", "invoked_incomplete", "printed">>

\* lines 113, 118, 121: the i-th step after compile is given the compiled module
Use(i) ==
  /\ mpc = StepAt[i]
  /\ steps' = Append(steps, AfterCompile[i])
  /\ used' = Append(used, compiled_extractor)
  /\ mpc' = StepAt[i + 1]
  /\ UNCHANGED <<entry, optimizer_arg, json_file, optimizer_type, trainset, optimizer,
                 students, compile_calls, compiled_extractor, main_result, exc>>

\* lines 113, 118, 121: the i-th step after compile raises
UseRaises(i) ==
  /\ mpc = StepAt[i]
  /\ steps' = Append(steps, AfterCompile[i])
  /\ used' = Append(used, compiled_extractor)
  /\ exc' = "CallError"
  /\ mpc' = "raised"
  /\ UNCHANGED <<entry, optimizer_arg, json_file, optimizer_type, trainset, optimizer,
                 students, compile_calls, compiled_extractor, main_result>>

\* line 123: main returns the compiled module
Return ==
  /\ mpc = "printed"
  /\ steps' = Append(steps, "return")
  /\ main_result' = compiled_extractor
  /\ mpc' = "returned"
  /\ UNCHANGED <<entry, optimizer_arg, json_file, optimizer_type, trainset, optimizer,
                 students, compile_calls, compiled_extractor, used, exc>>

\* the modules compile may return: the student it was given, or another module
Modules == {1, 2}

(***************************************************************************)
(* Specifications.                                                         *)
(***************************************************************************)
Next ==
  \/ \E r \in ClassifierReplies : Classify(r) /\ UNCHANGED mvars
  \/ ClassifyRaises /\ UNCHANGED mvars
  \/ \E e \in ExtractorReplies : Extract(e) /\ UNCHANGED mvars
  \/ ExtractRaises /\ UNCHANGED mvars
  \/ Diagnose /\ UNCHANGED mvars
  \/ \E ex \in Examples : Score(ex) /\ UNCHANGED mvars

\* one call of forward and one application of the metric to its result
Spec == Init /\ [][Next]_vars

NextMain ==
  \/ ParseArgs /\ UNCHANGED fvars
  \/ CallMain /\ UNCHANGED fvars
  \/ Load /\ UNCHANGED fvars
  \/ Construct /\ UNCHANGED fvars
  \/ \E m \in Modules : Compile(m) /\ UNCHANGED fvars
  \/ CompileRaises /\ UNCHANGED fvars
  \/ \E i \in 1..3 : Use(i) /\ UNCHANGED fvars
  \/ \E i \in 1..3 : UseRaises(i) /\ UNCHANGED fvars
  \/ Return /\ UNCHANGED fvars

\* one run of the script, or one call of main
SpecMain == InitMain /\ [][NextMain]_vars

(***************************************************************************)
(* Properties of forward and of the metric, checked under Spec.            *)
(***************************************************************************)
\* forward has returned a prediction
ForwardReturned == fpc \in {"returned", "scored"}

\* forward has returned from its incomplete branch
DiagnosticReturned == ForwardReturned /\ Len(calls) = 1

\* the entries of an example's "missing" field
ExpectedLabels(ex) == Elems(Split(ex.missing, <<",">>))

\* C1: for an example with a "missing" field, the metric returns True if and
\* only if every expected label is among the missing components the
\* prediction reports; stated for the predictions of forward's incomplete
\* branch, whose reported components are missing_parts.
C1_MetricTrueIffExpectedReported ==
  (fpc = "scored" /\ DiagnosticReturned /\ "missing" \in DOMAIN example) =>
    ( metric_result = "True" <=>
        ExpectedLabels(example) \subseteq Elems(missing_parts(completeness_result)) )

\* C2: for an example without a "missing" field, the metric returns a boolean,
\* True if and only if each of the four fields of the prediction equals the
\* example's field of the same name; it never ends in an error.
C2_MetricExactMatchOfFourFields ==
  (fpc = "scored" /\ "missing" \notin DOMAIN example) =>
    metric_result =
      IF /\ prediction.topic_sentence = example.topic_sentence
         /\ prediction.evidence = example.evidence
         /\ prediction.analysis = example.analysis
         /\ prediction.tieback_or_transition = example.tieback_or_transition
      THEN "True" ELSE "False"

\* C3 as stated: in every prediction forward returns the four fields are all
\* non-None or all None.
C3_FieldsJointlyPresentOrAbsent ==
  ForwardReturned =>
    \/ /\ prediction.topic_sentence # None /\ prediction.evidence # None
       /\ prediction.analysis # None /\ prediction.tieback_or_transition # None
    \/ /\ prediction.topic_sentence = None /\ prediction.evidence = None
       /\ prediction.analysis = None /\ prediction.tieback_or_transition = None

\* C3 as amended: in every prediction forward returns, either the extractor
\* was called and the prediction is its reply, all four fields non-None, or
\* it was not called, topic_sentence, evidence and analysis are all None and
\* tieback_or_transition is not None but holds the diagnostic message.
C3_ExtractedOrDiagnostic ==
  ForwardReturned =>
    \/ /\ Len(calls) = 2
       /\ prediction = extraction_result
       /\ prediction.topic_sentence # None /\ prediction.evidence # None
       /\ prediction.analysis # None /\ prediction.tieback_or_transition # None
    \/ /\ Len(calls) = 1
       /\ prediction.topic_sentence = None /\ prediction.evidence = None
       /\ prediction.analysis = None
       /\ prediction.tieback_or_transition # None
       /\ prediction.tieback_or_transition = message(completeness_result)

\* C3 witness: a diagnostic prediction naming two components was returned
C3_Witness ==
  /\ fpc = "returned" /\ Len(calls) = 1
  /\ completeness_result = evidence \o <<",", " ">> \o analysis
  /\ prediction.topic_sentence = None
  /\ prediction.tieback_or_transition # None

\* C4: the classifier is called exactly once and first; the extractor is
\* called, once and after the classifier has replied, if and only if the
\* reply contains "all_present" in any letter case; otherwise the extractor is
\* not called and the diagnostic prediction is the result.
C4_ClassifierThenExtractorIffComplete ==
  LET n == Len(calls)
      complete == Contains(Lower(completeness_result), all_present)
  IN  /\ fpc = "forward" => n = 0
      /\ fpc # "forward" =>
           /\ n >= 1 /\ n <= 2
           /\ calls[1].callee = "completeness_classifier"
           /\ n = 2 => calls[2].callee = "structure_extractor"
      /\ fpc = "classified" => n = 1
      /\ (fpc = "raised" /\ n = 2) => complete
      /\ ForwardReturned =>
           /\ n = 2 <=> complete
           /\ ~complete =>
                /\ prediction.topic_sentence = None /\ prediction.evidence = None
                /\ prediction.analysis = None
                /\ prediction.tieback_or_transition = message(completeness_result)

\* C4 witness: the reply spelled the marker with capitals and the extractor
\* was called after the classifier
C4_Witness ==
  /\ fpc = "returned"
  /\ completeness_result = <<"A","l","l","_","P","r","e","s","e","n","t">>
  /\ Len(calls) = 2
  /\ calls[2].callee = "structure_extractor"

\* the reply is a list of one or more component names, joined by ',' or ', '
IsLabelList(reply) ==
  LET parts == Split(RemoveChar(reply, " "), <<",">>)
  IN  /\ Elems(parts) \subseteq Components
      /\ reply \in { Join(<<",">>, parts), Join(<<",", " ">>, parts) }

\* C8: for a reply that is a list of component names, the list the metric
\* reads out of forward's message is the list the classifier reported, and an
\* example whose "missing" field holds the same labels is scored True.
C8_MessageRoundTrip ==
  (fpc = "scored" /\ DiagnosticReturned /\ IsLabelList(completeness_result)) =>
    /\ parsed_missing_parts(prediction.tieback_or_transition)
         = missing_parts(completeness_result)
    /\ ( /\ "missing" \in DOMAIN example
         /\ ExpectedLabels(example) = Elems(missing_parts(completeness_result)) )
       => metric_result = "True"

\* C10: whenever forward returns the diagnostic prediction, the components
\* named in its message include a non-empty name and none of them contains
\* "all_present" in any letter case.
C10_DiagnosticNamesRealComponents ==
  DiagnosticReturned =>
    LET parts == missing_parts(completeness_result)
    IN  /\ \E i \in 1..Len(parts) : parts[i] # <<>>
        /\ \A i \in 1..Len(parts) : ~Contains(Lower(parts[i]), all_present)

(***************************************************************************)
(* Properties of load_trainset and main, checked under SpecMain.           *)
(***************************************************************************)
\* the file makes load_trainset fail
FileFails(file) ==
  \/ file.state # "ok"
  \/ \E i \in 1..Len(file.samples) : ~file.samples[i].is_object

\* the step has begun
Began(step) == \E i \in 1..Len(steps) : steps[i] = step

\* C5, in every state: once loading has begun on a file that fails, the
\* failure has left main, no training set was returned and main has
\* constructed no optimizer, called no compile and invoked no extractor; and
\* a failure that left main left nothing returned.
C5_FailedRunState ==
  /\ (Began("load_trainset") /\ FileFails(json_file)) =>
       /\ mpc = "raised" /\ exc \in {"OSError", "JSONDecodeError", "KeyError", "TypeError"}
       /\ steps = <<"load_trainset">>
       /\ trainset = <<>> /\ optimizer = NoOptimizer
       /\ compile_calls = <<>> /\ used = <<>>
  /\ (mpc = "raised") => (exc # "none" /\ main_result = 0)
  /\ (exc = "CompileError") =>
       (steps[Len(steps)] = "compile" /\ used = <<>> /\ compiled_extractor = 0)
  /\ (exc = "CallError") => (steps[Len(steps)] \in Elems(AfterCompile) /\ main_result = 0)

\* C5: a failure of loading, of compile or of a compiled-extractor call
\* propagates out of main, and no later step of main runs.
C5_FailurePropagates ==
  /\ []C5_FailedRunState
  /\ [][exc # "none" => UNCHANGED mvars]_vars

\* C5 witness: the second entry of "samples" made loading fail after one
\* example had been built
C5_Witness ==
  /\ mpc = "raised" /\ exc = "TypeError"
  /\ Len(json_file.samples) = 2
  /\ json_file.samples[1].is_object /\ ~json_file.samples[2].is_object

\* C6: BootstrapFewShot is chosen if and only if optimizer_type is
\* "BootstrapFewShot", MIPROv2 for every other value and by default; the
\* command line accepts only the two names; the optimizer is given the metric
\* and compile is called once, with a new extractor and the loaded set.
C6_OptimizerSelection ==
  /\ Began("optimizer") =>
       /\ optimizer.kind \in {"BootstrapFewShot", "MIPROv2"}
       /\ optimizer.kind = "BootstrapFewShot" <=> optimizer_type = "BootstrapFewShot"
       /\ optimizer.metric = "is_text_complete_and_correct"
  /\ ~Began("optimizer") => optimizer = NoOptimizer
  /\ (entry = "cli" /\ mpc # "start") =>
       IF optimizer_arg = "absent" THEN optimizer_type = "MIPROv2"
       ELSE IF optimizer_arg \in {"BootstrapFewShot", "MIPROv2"}
       THEN optimizer_type = optimizer_arg
       ELSE mpc = "exited" /\ steps = <<>>
  /\ (entry = "call" /\ mpc # "start") =>
       optimizer_type = IF optimizer_arg = "absent" THEN "MIPROv2" ELSE optimizer_arg
  /\ Len(compile_calls) = (IF Began("compile") THEN 1 ELSE 0)
  /\ Began("compile") =>
       /\ compile_calls[1].optimizer = optimizer
       /\ compile_calls[1].trainset = trainset
       /\ compile_calls[1].student = 1 /\ students = 1
  /\ ~Began("compile") => students = 0
  /\ mpc = "returned" => Began("compile")

\* C6 witness: main was called with a name that is neither strategy, and
\* compiled with MIPROv2
C6_Witness ==
  /\ optimizer_type = "COPRO" /\ optimizer.kind = "MIPROv2"
  /\ Len(compile_calls) = 1

\* C7: from a "samples" array of n records load_trainset returns n examples,
\* the i-th holding the keys and values of the i-th record; an empty array
\* gives an empty list.
C7_LoadKeepsRecordsInOrder ==
  (Began("load_trainset") /\ ~FileFails(json_file)) =>
    /\ mpc # "raised" \/ steps # <<"load_trainset">>
    /\ Len(trainset) = Len(json_file.samples)
    /\ \A i \in 1..Len(trainset) :
         /\ DOMAIN trainset[i].store = DOMAIN json_file.samples[i].fields
         /\ \A k \in DOMAIN trainset[i].store :
              trainset[i].store[k] = json_file.samples[i].fields[k]

\* C7 witness: two different records were loaded
C7_Witness ==
  /\ mpc = "loaded" /\ Len(trainset) = 2
  /\ DOMAIN trainset[1].store # DOMAIN trainset[2].store

\* the steps of a run of main that completes
FullRun ==
  <<"load_trainset", "optimizer", "compile", "invoke_complete", "invoke_incomplete",
    "print_full_prompt", "return">>

\* C9: the steps of main begin in the order load, construct, compile, invoke
\* on the complete text, invoke on the incomplete text, print, each after the
\* one before has returned; the module invoked and printed is the one compile
\* returned, and it is main's return value.
C9_StepsInOrder ==
  /\ Len(steps) <= Len(FullRun)
  /\ \A i \in 1..Len(steps) : steps[i] = FullRun[i]
  /\ used # <<>> =>
       /\ Len(compile_calls) = 1 /\ compile_calls[1].result \in Modules
       /\ Len(steps) >= 3 + Len(used)
  /\ \A i \in 1..Len(used) : used[i] = compile_calls[1].result
  /\ mpc = "returned" =>
       /\ steps = FullRun
       /\ Len(used) = 3
       /\ main_result = compile_calls[1].result

\* C9 witness: a run completed and returned a module that is not the student
C9_Witness ==
  /\ mpc = "returned" /\ main_result = 2 /\ compile_calls[1].student = 1

=============================================================================
